---- MODULE Spec2Model ----
(***************************************************************************)
(* A model of src/src/client.js: the base Client of the query builder,    *)
(* its construction from a configuration, and its connection operations   *)
(* acquireConnection / abort / releaseConnection / destroy and query.     *)
(*                                                                         *)
(* Two places of the source decide how the connection operations behave:   *)
(*   - line 231, `const acquire = client.cluster ?                         *)
(*     client.pool.acquire.bind(client, capability);` has a consequent     *)
(*     and no alternative.  The only callee the line names is              *)
(*     client.pool.acquire with `this` bound to the Client.  For a Client  *)
(*     that holds a cluster client.pool is undefined; for a Client that    *)
(*     holds a pool the line yields no function of the pool (no            *)
(*     alternative), or the pool's method running on the Client, which     *)
(*     has none of a pool's fields.  In every reading the executor of the  *)
(*     promise throws before `request` is assigned and the pool is never   *)
(*     asked: the completed promise is rejected with the thrown TypeError  *)
(*     and request stays null.                                             *)
(*   - line 197 reads `connectionSettings`, which is bound nowhere in      *)
(*     poolDefaults (its parameter is spelled coonectionSettings), so the  *)
(*     pool factory's acquire throws a ReferenceError before it reaches    *)
(*     the driver: a pool built by initializePool never holds a handle.    *)
(* The Pool itself (the pool2 package) is not part of the source; what the *)
(* model needs of it (end, release) follows the specification's section    *)
(* 4.1.                                                                    *)
(***************************************************************************)
EXTENDS Integers, Sequences, FiniteSets, TLC

(* ---------------------------------------------------------------- bounds *)
NumCallers == 2
MaxAborts == 1
NumDestroyers == 2
MaxPoolMax == 1
NumQueries == 2
NumCreations == 2
NumDisposals == 2

Callers == 1..NumCallers
\* The three callers of three concurrent acquireConnection calls.
ConcurrentAcquirers == {1, 2, 3}
AllCallers == Callers \cup ConcurrentAcquirers
Destroyers == 1..NumDestroyers
Queries == 1..NumQueries
Creations == 1..NumCreations
Disposals == 1..NumDisposals

(* ------------------------------------------------------------- constants *)
\* poolDefaults: min: 2, max: 10
DefaultMin == 2
DefaultMax == 10

\* undefined, as the value of this.pool, this.cluster, config.pool, config.cluster
Undefined == [defined |-> FALSE]
\* request = null
NullRequest == [isNull |-> TRUE]

NoError == "none"
ConfigError == "Cannot specify both pool and cluster in config"
DriverError == "Knex: run $ npm install <driverName> --save"
NoPoolError == "There is no pool defined on the current client"
TypeError == "TypeError"
ReferenceError == "ReferenceError: connectionSettings is not defined"
ConnectError == "the driver failed to connect"
HookError == "the afterCreate hook failed"

\* The raw connection handles a caller may pass to releaseConnection or query.
Handles == {"h1", "h2"}
NoHandle == "none"

\* connection.__knexUid
Uid(connection) ==
  IF connection = "h1" THEN "__knexUid1" ELSE "__knexUid2"

(* ------------------------------------------------------------ statements *)
\* A statement text is a sequence of tokens; "?" is a placeholder.
Sqls == {<<"SELECT", "?", "AS", "x">>}
BindingLists == {<<1>>, <<1, 2>>}

\* What a caller passes to query(): a string, or {sql, bindings} with or
\* without bindings.
Requests ==
  [isString : {TRUE}, sql : Sqls, hasBindings : {FALSE}, bindings : {<<>>}] \cup
  [isString : {FALSE}, sql : Sqls, hasBindings : {FALSE}, bindings : {<<>>}] \cup
  [isString : {FALSE}, sql : Sqls, hasBindings : {TRUE}, bindings : BindingLists]

NoStatement == [sql |-> <<>>, hasBindings |-> FALSE, bindings |-> <<>>]

\* The text of the error the driver fails a statement with.
DriverErrorText == <<"driver", "failure">>
NoErrorObject == [id |-> 0, message |-> <<>>]

\* SqlString.escape of a bound value, for display.
Escape(v) ==
  CASE v = 1 -> "1"
    [] v = 2 -> "2"

\* SqlString.format(sql, values): each placeholder is replaced by the next
\* value, escaped; placeholders beyond the values are left as they are.
RECURSIVE Format(_, _)
Format(sql, values) ==
  IF sql = <<>> THEN <<>>
  ELSE IF Head(sql) = "?" /\ values # <<>>
       THEN <<Escape(Head(values))>> \o Format(Tail(sql), Tail(values))
       ELSE <<Head(sql)>> \o Format(Tail(sql), values)

(* --------------------------------------------------------- configuration *)
\* config.pool: an options object with or without a max.
PoolConfigs == {[defined |-> TRUE, hasMax |-> FALSE, max |-> 0]} \cup
               {[defined |-> TRUE, hasMax |-> TRUE, max |-> m] : m \in 0..MaxPoolMax}

\* config.cluster: a list of per-endpoint pool options.
ClusterConfigs ==
  {[defined |-> TRUE,
    endpoints |-> <<[defined |-> TRUE, hasMax |-> TRUE, max |-> 1, host |-> "a"],
                    [defined |-> TRUE, hasMax |-> TRUE, max |-> 1, host |-> "b"]>>]}

\* The dialect: no driverName (the base Client), a driverName whose package
\* loads, or a driverName whose package is missing.
Drivers == {"absent", "present", "missing"}

\* poolConfig.afterCreate and poolConfig.beforeDestroy: each hook is absent or
\* a function; an afterCreate hook passes or fails the handle it is given.
PoolHooks == [afterCreate : {"absent", "succeeds", "fails"},
              beforeDestroy : {"absent", "present"}]
NoHooks == [afterCreate |-> "absent", beforeDestroy |-> "absent"]

\* What the pool passes to its factory's dispose: a handle or undefined.
DisposeArgs == {[present |-> TRUE, connection |-> h] : h \in Handles} \cup
               {[present |-> FALSE, connection |-> NoHandle]}

\* The outcomes of the driver's acquireRawConnection.
RawOutcomes == {"connected", "failed"}

Configs == [connection : BOOLEAN,
            pool : {Undefined} \cup PoolConfigs,
            cluster : {Undefined} \cup ClusterConfigs]

VARIABLES
  driver,       \* this.driverName and this._driver(): "absent", "present" or "missing"
  config,       \* this.config
  phase,        \* "new" before the constructor ran, then "ready", "threw" or "exited"
  ctorError,    \* the error the constructor threw, or NoError
  pool,         \* this.pool: Undefined or a Pool
  cluster,      \* this.cluster: Undefined or a Cluster
  acq,          \* per caller: the {completed, abort} pair of its acquireConnection call
  rel,          \* per caller: the promise of its releaseConnection call
  dest,         \* per destroy call: its promise and the pool it ends
  emitted,      \* how many events of each name the Client emitted
  qry,          \* per query call: the promise query() returned and what it dispatched
  qlog,         \* the query and query-error events the Client emitted, in order
  hooks,        \* the afterCreate and beforeDestroy hooks of the pool options
  crt,          \* per creation: what the pool factory's acquire did
  dsp,          \* per disposal: the stage of the pool factory's dispose and its calls
  settings,     \* the connectionSettings object of the constructor, and per pool of
                \* the cluster the object that was passed to initializePool
  reinit        \* the second run of the constructor on the same Client

queryVars == <<qry, qlog>>
factoryVars == <<hooks, crt, dsp>>
vars == <<driver, config, phase, ctorError, pool, cluster, acq, rel, dest, emitted,
          qry, qlog, hooks, crt, dsp, settings, reinit>>

(* ------------------------------------------------------------------ pool *)
\* poolDefaults(poolConfig, coonectionSettings): the defaults of a pool.
poolDefaults(poolConfig, coonectionSettings) ==
  [min |-> DefaultMin, max |-> DefaultMax]

\* assign(defaults, poolConfig): the keys of poolConfig override the defaults.
assign(defaults, poolConfig) ==
  [defaults EXCEPT !.max = IF poolConfig.hasMax THEN poolConfig.max ELSE @]

\* new Pool(options): a pool that is not ending.  It holds no handle, and
\* never will: its factory's acquire throws before it reaches the driver.
Pool(options) ==
  [defined |-> TRUE, min |-> options.min, max |-> options.max, ending |-> FALSE]

\* initializePool(poolConfig, connectionSettings)
initializePool(poolConfig, connectionSettings) ==
  Pool(assign(poolDefaults(poolConfig, connectionSettings), poolConfig))

\* new Pool.Cluster(pools)
Cluster(pools) ==
  [defined |-> TRUE, pools |-> pools, ending |-> FALSE]

\* initializeCluster(clusterConfig, connectionSettings): one pool per endpoint.
initializeCluster(clusterConfig, connectionSettings) ==
  Cluster([i \in 1..Len(clusterConfig.endpoints) |->
             initializePool(clusterConfig.endpoints[i], connectionSettings)])

\* pool.end(callback) / cluster.end(callback): the pool stops accepting
\* requests and drains.
PoolEnd(p) ==
  [p EXCEPT !.ending = TRUE]

\* pool.release(connection) / cluster.release(connection) for a handle the
\* pool has not checked out: the pool is left as it is and nothing is thrown.
PoolRelease(p, connection) ==
  p

(* --------------------------------------------------- connection settings *)
\* cloneDeep(config.connection || {}) (line 35): the settings of a connection
\* name a host; the empty object names nothing.
cloneDeep(connection) ==
  [host |-> IF connection THEN "shared" ELSE "unset", hasMax |-> FALSE, max |-> 0]

NoSettings == [object |-> cloneDeep(FALSE), passed |-> <<>>]

\* assign(connectionSettings, poolConfig) (line 175): the keys of poolConfig
\* are written into the object connectionSettings, which is what is returned.
assignSettings(connectionSettings, poolConfig) ==
  [host |-> poolConfig.host,
   hasMax |-> connectionSettings.hasMax \/ poolConfig.hasMax,
   max |-> IF poolConfig.hasMax THEN poolConfig.max ELSE connectionSettings.max]

\* The object connectionSettings after clusterConfig.map (lines 174-176) has
\* run over the endpoints in order.
RECURSIVE mapAssign(_, _)
mapAssign(endpoints, connectionSettings) ==
  IF endpoints = <<>> THEN connectionSettings
  ELSE mapAssign(Tail(endpoints), assignSettings(connectionSettings, Head(endpoints)))

\* The settings object after the constructor ran and, per pool of the cluster,
\* which object initializePool was passed: the one object connectionSettings,
\* for every endpoint.
constructorSettings(cfg, builtCluster) ==
  IF builtCluster
  THEN [object |-> mapAssign(cfg.cluster.endpoints, cloneDeep(cfg.connection)),
        passed |-> [i \in 1..Len(cfg.cluster.endpoints) |-> "connectionSettings"]]
  ELSE [object |-> cloneDeep(cfg.connection), passed |-> <<>>]

(* ----------------------------------------------------------- constructor *)
\* initializeDriver() (lines 162-168): helpers.exit ends the process when the
\* driver's package cannot be loaded.
initializeDriver(drv) ==
  IF drv = "missing" THEN DriverError ELSE NoError

\* function Client(config) without the check of line 40.
Client_NoConfigCheck(drv, cfg) ==
  IF drv # "absent" /\ (cfg.connection \/ cfg.cluster.defined)
  THEN IF initializeDriver(drv) # NoError
       THEN [pool |-> Undefined, cluster |-> Undefined, error |-> DriverError]
       ELSE [pool |-> IF cfg.pool.defined /\ ~(cfg.pool.hasMax /\ cfg.pool.max = 0)
                      THEN initializePool(cfg.pool, cfg.connection)
                      ELSE Undefined,
             cluster |-> IF cfg.cluster.defined
                         THEN initializeCluster(cfg.cluster, cfg.connection)
                         ELSE Undefined,
             error |-> NoError]
  ELSE [pool |-> Undefined, cluster |-> Undefined, error |-> NoError]

\* function Client(config) (lines 33-56): what the constructor leaves in
\* this.pool and this.cluster, and the error it ends with.
Client(drv, cfg) ==
  IF drv # "absent" /\ (cfg.connection \/ cfg.cluster.defined)
  THEN IF initializeDriver(drv) # NoError
       THEN [pool |-> Undefined, cluster |-> Undefined, error |-> DriverError]
       ELSE IF cfg.pool.defined /\ cfg.cluster.defined
       THEN [pool |-> Undefined, cluster |-> Undefined, error |-> ConfigError]
       ELSE [pool |-> IF cfg.pool.defined /\ ~(cfg.pool.hasMax /\ cfg.pool.max = 0)
                      THEN initializePool(cfg.pool, cfg.connection)
                      ELSE Undefined,
             cluster |-> IF cfg.cluster.defined
                         THEN initializeCluster(cfg.cluster, cfg.connection)
                         ELSE Undefined,
             error |-> NoError]
  ELSE [pool |-> Undefined, cluster |-> Undefined, error |-> NoError]

NoAcquire == [state |-> "none", err |-> NoError, request |-> NullRequest, aborts |-> 0]
NoRelease == [state |-> "none", err |-> NoError]
NoDestroy == [state |-> "none", target |-> "none"]
NoQuery == [state |-> "none", kind |-> "none", connection |-> NoHandle, obj |-> NoStatement,
            dispatches |-> 0, err |-> NoErrorObject]

NoReinit == [state |-> "none", built |-> "none"]
NoCreation == [state |-> "none", err |-> NoError, connection |-> NoHandle,
               hookCalls |-> 0, handed |-> FALSE, destroyed |-> FALSE]
NoDisposal == [stage |-> "none", present |-> FALSE, connection |-> NoHandle,
               log |-> <<>>]

InitWith(hks) ==
  /\ driver \in Drivers
  /\ config \in Configs
  /\ phase = "new"
  /\ ctorError = NoError
  /\ pool = Undefined
  /\ cluster = Undefined
  /\ acq = [c \in AllCallers |-> NoAcquire]
  /\ rel = [c \in Callers |-> NoRelease]
  /\ dest = [d \in Destroyers |-> NoDestroy]
  /\ emitted = [acquireConnection |-> 0, releaseConnection |-> 0]
  /\ qry = [q \in Queries |-> NoQuery]
  /\ qlog = <<>>
  /\ hooks \in hks
  /\ crt = [a \in Creations |-> NoCreation]
  /\ dsp = [k \in Disposals |-> NoDisposal]
  /\ settings = NoSettings
  /\ reinit = NoReinit

Init == InitWith({NoHooks})

\* new Client(config)
Construct ==
  /\ phase = "new"
  /\ LET r == Client(driver, config) IN
       /\ pool' = r.pool
       /\ cluster' = r.cluster
       /\ ctorError' = r.error
       /\ phase' = IF r.error = NoError THEN "ready"
                   ELSE IF r.error = DriverError THEN "exited" ELSE "threw"
       /\ settings' = constructorSettings(config, r.cluster.defined)
  /\ UNCHANGED <<factoryVars, reinit, driver, config, acq, rel, dest, emitted, queryVars>>

(* ----------------------------------------------------- acquireConnection *)
\* The executor of acquireConnection's promise (lines 227-238): with neither a
\* pool nor a cluster it rejects with the no-pool error; otherwise line 231
\* throws before `request` is assigned, which rejects the promise.
acquireConnection(p, cl) ==
  IF ~p.defined /\ ~cl.defined
  THEN [state |-> "rejected", err |-> NoPoolError, request |-> NullRequest, aborts |-> 0]
  ELSE [state |-> "rejected", err |-> TypeError, request |-> NullRequest, aborts |-> 0]

AcquireConnection(c) ==
  /\ phase = "ready"
  /\ acq[c].state = "none"
  /\ acq' = [acq EXCEPT ![c] = acquireConnection(pool, cluster)]
  /\ UNCHANGED <<factoryVars, settings, reinit, driver, config, phase, ctorError, pool, cluster, rel, dest, emitted, queryVars>>

\* abort(reason) (lines 239-243): request.abort only for a request that exists
\* and is not fulfilled.
abort(a) ==
  IF ~a.request.isNull /\ ~a.request.fulfilled
  THEN [a EXCEPT !.request = [@ EXCEPT !.fulfilled = TRUE],
                 !.state = "rejected", !.err = "aborted"]
  ELSE a

Abort(c) ==
  /\ acq[c].state # "none"
  /\ acq[c].aborts < MaxAborts
  /\ acq' = [acq EXCEPT ![c] = [abort(@) EXCEPT !.aborts = @ + 1]]
  /\ UNCHANGED <<factoryVars, settings, reinit, driver, config, phase, ctorError, pool, cluster, rel, dest, emitted, queryVars>>

(* ----------------------------------------------------- releaseConnection *)
\* this.pool || this.cluster
poolOrCluster(p, cl) ==
  IF p.defined THEN p ELSE cl

\* releaseConnection(connection) (lines 252-260): the event is emitted first;
\* the executor calls pool.release and resolves, and rejects with the
\* TypeError of `undefined.release` when there is neither pool nor cluster.
ReleaseConnection(c, connection) ==
  /\ phase = "ready"
  /\ rel[c].state = "none"
  /\ emitted' = [emitted EXCEPT !.releaseConnection = @ + 1]
  /\ LET target == poolOrCluster(pool, cluster) IN
       IF target.defined
       THEN /\ rel' = [rel EXCEPT ![c] = [state |-> "resolved", err |-> NoError]]
            /\ pool' = IF pool.defined THEN PoolRelease(pool, connection) ELSE pool
            /\ cluster' = IF pool.defined THEN cluster
                          ELSE PoolRelease(cluster, connection)
       ELSE /\ rel' = [rel EXCEPT ![c] = [state |-> "rejected", err |-> TypeError]]
            /\ UNCHANGED <<pool, cluster>>
  /\ UNCHANGED <<factoryVars, settings, reinit, driver, config, phase, ctorError, acq, dest, queryVars>>

(* --------------------------------------------------------------- destroy *)
\* destroy(callback) (lines 263-280): with neither pool nor cluster the
\* promise resolves at once; otherwise the pool or cluster is ended and the
\* promise resolves in the callback of end.
Destroy(d) ==
  /\ phase = "ready"
  /\ dest[d].state = "none"
  /\ IF ~poolOrCluster(pool, cluster).defined
     THEN /\ dest' = [dest EXCEPT ![d] = [state |-> "done", target |-> "none"]]
          /\ UNCHANGED <<pool, cluster>>
     ELSE /\ dest' = [dest EXCEPT ![d] =
                        [state |-> "ending",
                         target |-> IF pool.defined THEN "pool" ELSE "cluster"]]
          /\ pool' = IF pool.defined THEN PoolEnd(pool) ELSE pool
          /\ cluster' = IF pool.defined THEN cluster ELSE PoolEnd(cluster)
  /\ UNCHANGED <<factoryVars, settings, reinit, driver, config, phase, ctorError, acq, rel, emitted, queryVars>>

\* The callback of pool.end with `client.cluster = undefined` left out.
endCallback_KeepsCluster(p, cl) ==
  [pool |-> Undefined, cluster |-> cl]

\* The callback of pool.end (lines 268-272): both references are cleared.
endCallback(p, cl) ==
  [pool |-> Undefined, cluster |-> Undefined]

\* The ended pool has drained (it holds no handle) and calls back.
DestroyEnd(d) ==
  /\ dest[d].state = "ending"
  /\ LET r == endCallback(pool, cluster) IN
       /\ pool' = r.pool
       /\ cluster' = r.cluster
  /\ dest' = [dest EXCEPT ![d].state = "done"]
  /\ UNCHANGED <<factoryVars, settings, reinit, driver, config, phase, ctorError, acq, rel, emitted, queryVars>>

(* ------------------------------------------------------ re-initialisation *)
\* The constructor run a second time on a Client that holds a pool or a
\* cluster, with a new configuration (lines 33-51).  destroy() (line 39) ends
\* the old pool; the pool calls the callback of end either before end returns
\* (sync) or later.  this.pool and this.cluster are assigned only where the
\* new configuration builds one.
Reinit(cfg, sync) ==
  /\ phase = "ready"
  /\ reinit.state = "none"
  /\ pool.defined \/ cluster.defined
  /\ config' = cfg
  /\ IF ~(cfg.connection \/ cfg.cluster.defined)
     THEN /\ reinit' = [state |-> "skipped", built |-> "none"]
          /\ settings' = constructorSettings(cfg, FALSE)
          /\ UNCHANGED <<pool, cluster, ctorError>>
     ELSE LET ended == [pool |-> IF pool.defined THEN PoolEnd(pool) ELSE pool,
                        cluster |-> IF pool.defined THEN cluster ELSE PoolEnd(cluster)]
              old == IF sync THEN endCallback(ended.pool, ended.cluster) ELSE ended
              r == Client(driver, cfg)
          IN /\ pool' = IF r.pool.defined THEN r.pool ELSE old.pool
             /\ cluster' = IF r.cluster.defined THEN r.cluster ELSE old.cluster
             /\ ctorError' = r.error
             /\ settings' = constructorSettings(cfg, r.cluster.defined)
             /\ reinit' = [state |-> IF sync THEN "done" ELSE "ending",
                           built |-> IF r.pool.defined THEN "pool"
                                     ELSE IF r.cluster.defined THEN "cluster"
                                     ELSE "none"]
  /\ UNCHANGED <<factoryVars, driver, phase, acq, rel, dest, emitted, queryVars>>

\* The old pool has drained: the callback of the end that the constructor's
\* destroy() started runs (lines 268-272).
ReinitEnd ==
  /\ reinit.state = "ending"
  /\ pool' = endCallback(pool, cluster).pool
  /\ cluster' = endCallback(pool, cluster).cluster
  /\ reinit' = [reinit EXCEPT !.state = "done"]
  /\ UNCHANGED <<factoryVars, settings, driver, config, phase, ctorError, acq, rel, dest,
                 emitted, queryVars>>

(* ---------------------------------------------------------- pool factory *)
\* Whether the name connectionSettings read at line 197 is bound in the scope
\* of the factory: the parameter of poolDefaults is spelled coonectionSettings
\* and the module declares no such name.
connectionSettingsBound == FALSE

\* The acquire of the pool factory (lines 196-205), for a driver connect with
\* outcome raw that would yield the handle connection: evaluating the argument
\* of acquireRawConnection throws; past that, the handle is tagged, the
\* afterCreate hook is run on it and the outcome goes to the callback; no
\* branch hands the handle to destroyRawConnection.
factoryAcquire(poolConfig, raw, connection) ==
  IF ~connectionSettingsBound
  THEN [state |-> "threw", err |-> ReferenceError, connection |-> NoHandle,
        hookCalls |-> 0, handed |-> FALSE, destroyed |-> FALSE]
  ELSE IF raw = "failed"
  THEN [state |-> "called back", err |-> ConnectError, connection |-> NoHandle,
        hookCalls |-> 0, handed |-> FALSE, destroyed |-> FALSE]
  ELSE IF poolConfig.afterCreate = "absent"
  THEN [state |-> "called back", err |-> NoError, connection |-> connection,
        hookCalls |-> 0, handed |-> TRUE, destroyed |-> FALSE]
  ELSE IF poolConfig.afterCreate = "fails"
  THEN [state |-> "called back", err |-> HookError, connection |-> connection,
        hookCalls |-> 1, handed |-> FALSE, destroyed |-> FALSE]
  ELSE [state |-> "called back", err |-> NoError, connection |-> connection,
        hookCalls |-> 1, handed |-> TRUE, destroyed |-> FALSE]

\* The pool asks its factory for a new handle.
FactoryAcquire(a, raw, connection) ==
  /\ phase = "ready"
  /\ pool.defined
  /\ crt[a].state = "none"
  /\ crt' = [crt EXCEPT ![a] = factoryAcquire(hooks, raw, connection)]
  /\ UNCHANGED <<driver, config, phase, ctorError, pool, cluster, acq, rel, dest,
                 emitted, queryVars, settings, reinit, hooks, dsp>>

\* A dispose that hands the handle to the driver at once, hook or not.
dispose_NoWait(poolConfig, arg) ==
  IF poolConfig.beforeDestroy # "absent"
  THEN [stage |-> "disconnect", log |-> <<"beforeDestroy", "destroyRawConnection">>]
  ELSE IF arg.present
  THEN [stage |-> "disconnect", log |-> <<"destroyRawConnection">>]
  ELSE [stage |-> "returned", log |-> <<>>]

\* The dispose of the pool factory up to its return (lines 206-216): with a
\* beforeDestroy hook the hook is invoked with whatever connection is; without
\* one a connection that is not undefined goes to destroyRawConnection.
dispose(poolConfig, arg) ==
  IF poolConfig.beforeDestroy # "absent"
  THEN [stage |-> "hook", log |-> <<"beforeDestroy">>]
  ELSE IF arg.present
  THEN [stage |-> "disconnect", log |-> <<"destroyRawConnection">>]
  ELSE [stage |-> "returned", log |-> <<>>]

\* The function dispose passes to the hook (lines 208-212).
hookDone(d) ==
  IF d.present
  THEN [d EXCEPT !.stage = "disconnect",
                 !.log = Append(Append(d.log, "done"), "destroyRawConnection")]
  ELSE [d EXCEPT !.stage = "returned", !.log = Append(d.log, "done")]

\* The pool calls dispose(connection, callback).
Dispose(k, arg) ==
  /\ phase = "ready"
  /\ pool.defined
  /\ dsp[k].stage = "none"
  /\ dsp' = [dsp EXCEPT ![k] =
               [stage |-> dispose(hooks, arg).stage,
                present |-> arg.present,
                connection |-> arg.connection,
                log |-> dispose(hooks, arg).log]]
  /\ UNCHANGED <<driver, config, phase, ctorError, pool, cluster, acq, rel, dest,
                 emitted, queryVars, settings, reinit, hooks, crt>>

\* The beforeDestroy hook signals that it is done.
BeforeDestroyDone(k) ==
  /\ dsp[k].stage = "hook"
  /\ dsp' = [dsp EXCEPT ![k] = hookDone(dsp[k])]
  /\ UNCHANGED <<driver, config, phase, ctorError, pool, cluster, acq, rel, dest,
                 emitted, queryVars, settings, reinit, hooks, crt>>

\* The driver's destroyRawConnection completes and calls the callback it was
\* given, which is the callback of dispose.
DestroyRawConnectionDone(k) ==
  /\ dsp[k].stage = "disconnect"
  /\ dsp' = [dsp EXCEPT ![k] = [@ EXCEPT !.stage = "returned",
                                         !.log = Append(@, "callback")]]
  /\ UNCHANGED <<driver, config, phase, ctorError, pool, cluster, acq, rel, dest,
                 emitted, queryVars, settings, reinit, hooks, crt>>

(* ----------------------------------------------------------------- query *)
\* if (typeof obj === 'string') obj = {sql: obj}
normalize(obj) ==
  [sql |-> obj.sql, hasBindings |-> obj.hasBindings, bindings |-> obj.bindings]

\* assign({__knexUid: connection.__knexUid}, obj)
tagged(connection, obj) ==
  [uid |-> Uid(connection), sql |-> obj.sql, hasBindings |-> obj.hasBindings,
   bindings |-> obj.bindings]

\* The catch handler of query with the bindings left out of the message.
rewrite_NoBindings(obj, err) ==
  [err EXCEPT !.message = obj.sql \o <<" - ">> \o @]

\* err.message = SqlString.format(obj.sql, obj.bindings) + ' - ' + err.message
rewrite(obj, err) ==
  [err EXCEPT !.message = Format(obj.sql, obj.bindings) \o <<" - ">> \o @]

\* An entry of qlog: an event the Client emitted, or ("dispatch") the call of
\* the driver's _query or _stream; call is the query or stream call it
\* belongs to.
Entry(name, q, err, connection, obj) ==
  [name |-> name, call |-> q, err |-> err, payload |-> tagged(connection, obj)]

\* query(connection, obj) (lines 136-140): normalise, emit 'query', dispatch
\* to the driver's _query.
QueryCall(q, connection, request) ==
  /\ phase = "ready"
  /\ qry[q].state = "none"
  /\ LET obj == normalize(request) IN
       /\ qlog' = qlog \o <<Entry("query", q, NoErrorObject, connection, obj),
                             Entry("dispatch", q, NoErrorObject, connection, obj)>>
       /\ qry' = [qry EXCEPT ![q] = [state |-> "dispatched", kind |-> "query",
                                     connection |-> connection,
                                     obj |-> obj, dispatches |-> 1,
                                     err |-> NoErrorObject]]
  /\ UNCHANGED <<factoryVars, settings, reinit, driver, config, phase, ctorError, pool, cluster, acq, rel, dest,
                 emitted>>

\* The driver ran the statement: the promise of query or stream resolves.
QueryResolve(q) ==
  /\ qry[q].state = "dispatched"
  /\ qry' = [qry EXCEPT ![q].state = "resolved"]
  /\ UNCHANGED <<factoryVars, settings, reinit, driver, config, phase, ctorError, pool, cluster, acq, rel, dest,
                 emitted, qlog>>

\* The driver failed the statement with a new error (lines 140-144): the
\* handler rewrites the message, emits 'query-error' and throws the error.
QueryReject(q) ==
  /\ qry[q].state = "dispatched"
  /\ qry[q].kind = "query"
  /\ LET err == rewrite(qry[q].obj, [id |-> q, message |-> DriverErrorText]) IN
       /\ qlog' = Append(qlog, Entry("query-error", q, err, qry[q].connection,
                                      qry[q].obj))
       /\ qry' = [qry EXCEPT ![q].state = "rejected", ![q].err = err]
  /\ UNCHANGED <<factoryVars, settings, reinit, driver, config, phase, ctorError, pool, cluster, acq, rel, dest,
                 emitted>>

\* A stream that calls the driver's _stream without emitting 'query'.
StreamCall_NoEvent(q, connection, request) ==
  /\ phase = "ready"
  /\ qry[q].state = "none"
  /\ LET obj == normalize(request) IN
       /\ qlog' = Append(qlog, Entry("dispatch", q, NoErrorObject, connection, obj))
       /\ qry' = [qry EXCEPT ![q] = [state |-> "dispatched", kind |-> "stream",
                                     connection |-> connection,
                                     obj |-> obj, dispatches |-> 1,
                                     err |-> NoErrorObject]]
  /\ UNCHANGED <<factoryVars, settings, reinit, driver, config, phase, ctorError, pool, cluster, acq, rel, dest,
                 emitted>>

\* stream(connection, obj, stream, options) (lines 147-152): normalise, emit
\* 'query', dispatch to the driver's _stream; what _stream returns is returned
\* as it is.
StreamCall(q, connection, request) ==
  /\ phase = "ready"
  /\ qry[q].state = "none"
  /\ LET obj == normalize(request) IN
       /\ qlog' = qlog \o <<Entry("query", q, NoErrorObject, connection, obj),
                             Entry("dispatch", q, NoErrorObject, connection, obj)>>
       /\ qry' = [qry EXCEPT ![q] = [state |-> "dispatched", kind |-> "stream",
                                     connection |-> connection,
                                     obj |-> obj, dispatches |-> 1,
                                     err |-> NoErrorObject]]
  /\ UNCHANGED <<factoryVars, settings, reinit, driver, config, phase, ctorError, pool, cluster, acq, rel, dest,
                 emitted>>

\* The driver failed the stream with a new error: stream has no handler, the
\* promise is rejected with the driver's error and nothing is emitted.
StreamReject(q) ==
  /\ qry[q].state = "dispatched"
  /\ qry[q].kind = "stream"
  /\ qry' = [qry EXCEPT ![q].state = "rejected",
                        ![q].err = [id |-> q, message |-> DriverErrorText]]
  /\ UNCHANGED <<factoryVars, settings, reinit, driver, config, phase, ctorError, pool, cluster, acq, rel, dest,
                 emitted, qlog>>

Next ==
  \/ Construct
  \/ \E c \in Callers : AcquireConnection(c)
  \/ \E c \in Callers : Abort(c)
  \/ \E c \in Callers, h \in Handles : ReleaseConnection(c, h)
  \/ \E d \in Destroyers : Destroy(d)
  \/ \E d \in Destroyers : DestroyEnd(d)

Spec == Init /\ [][Next]_vars

\* The query operations of a Client built from a configuration without
\* connection, pool or cluster, which never loads a driver package (query
\* reads neither this.pool nor this.cluster).
InitQuery ==
  /\ Init
  /\ driver # "missing"
  /\ config = [connection |-> FALSE, pool |-> Undefined, cluster |-> Undefined]

NextQuery ==
  \/ Construct
  \/ \E q \in Queries, h \in Handles, r \in Requests : QueryCall(q, h, r)
  \/ \E q \in Queries : QueryResolve(q)
  \/ \E q \in Queries : QueryReject(q)
  \/ \E q \in Queries, h \in Handles, r \in Requests : StreamCall(q, h, r)
  \/ \E q \in Queries : StreamReject(q)

SpecQuery == InitQuery /\ [][NextQuery]_vars

\* A Client with a driver, built from a cluster of two endpoints with max = 1
\* each, and three callers of acquireConnection.
InitCluster ==
  /\ Init
  /\ driver = "present"
  /\ config.cluster.defined
  /\ ~config.pool.defined

NextCluster ==
  \/ Construct
  \/ \E c \in ConcurrentAcquirers : AcquireConnection(c)
  \/ \E c \in ConcurrentAcquirers : Abort(c)
  \/ \E c \in Callers, h \in Handles : ReleaseConnection(c, h)

SpecCluster == InitCluster /\ [][NextCluster]_vars

\* The factory of the Pool of a Client built with a driver, a connection and
\* pool options that carry any combination of hooks.
InitDispose ==
  /\ InitWith(PoolHooks)
  /\ driver = "present"
  /\ config \in {c \in Configs : c.connection /\ c.pool.defined /\ ~c.cluster.defined}

NextDispose ==
  \/ Construct
  \/ \E a \in Creations, raw \in RawOutcomes, h \in Handles : FactoryAcquire(a, raw, h)
  \/ \E k \in Disposals, arg \in DisposeArgs : Dispose(k, arg)
  \/ \E k \in Disposals : BeforeDestroyDone(k)
  \/ \E k \in Disposals : DestroyRawConnectionDone(k)

SpecDispose == InitDispose /\ [][NextDispose]_vars

\* A Client with a driver whose constructor is run again with any
\* configuration.
InitReinit ==
  /\ Init
  /\ driver = "present"

NextReinit ==
  \/ Construct
  \/ \E cfg \in Configs, sync \in BOOLEAN : Reinit(cfg, sync)
  \/ ReinitEnd
  \/ \E c \in Callers : AcquireConnection(c)

SpecReinit == InitReinit /\ [][NextReinit]_vars

(* ================================================================ claims *)

\* C4: once a destroy() has completed the Client references neither a pool
\* nor a cluster, and an acquireConnection call made by a Client that holds
\* neither (after a completed destroy, or because it never had one) rejects
\* its completed promise with the no-pool error, creates no pool request,
\* leaves pool and cluster alone and emits no acquireConnection event.
C4_NoPoolAfterDestroy ==
  /\ [](\A d \in Destroyers :
          dest[d].state = "done" => ~pool.defined /\ ~cluster.defined)
  /\ [][\A c \in Callers :
          (~pool.defined /\ ~cluster.defined
             /\ acq[c].state = "none" /\ acq'[c].state # "none")
          => /\ acq'[c].state = "rejected"
             /\ acq'[c].err = NoPoolError
             /\ acq'[c].request.isNull
             /\ emitted'.acquireConnection = emitted.acquireConnection
             /\ pool' = pool
             /\ cluster' = cluster]_vars

\* C4 witness: a destroy that ended a pool or cluster has completed and a
\* caller's acquireConnection was rejected with the no-pool error afterwards.
C4_Witness ==
  \E d \in Destroyers, c \in Callers :
    /\ dest[d].state = "done"
    /\ dest[d].target # "none"
    /\ acq[c].state = "rejected"
    /\ acq[c].err = NoPoolError

QueryErrorEvents(q) ==
  {i \in DOMAIN qlog : qlog[i].name = "query-error" /\ qlog[i].err.id = q}

\* C9: a query the driver failed rejects with the driver's own error object,
\* whose message is the rendered statement, " - ", and the driver's text (for
\* SELECT ? AS x with [1]: SELECT 1 AS x - <driver text>); exactly one
\* query-error event carries that error and the statement tagged with the
\* handle's identifier; the statement was dispatched once.
C9_QueryErrorRewritten ==
  \A q \in Queries :
    (qry[q].kind = "query" /\ qry[q].state = "rejected") =>
      /\ qry[q].err.id = q
      /\ qry[q].err.message =
           Format(qry[q].obj.sql, qry[q].obj.bindings) \o <<" - ">> \o DriverErrorText
      /\ (qry[q].obj.sql = <<"SELECT", "?", "AS", "x">> /\ qry[q].obj.bindings = <<1>>)
           => qry[q].err.message =
                <<"SELECT", "1", "AS", "x", " - ", "driver", "failure">>
      /\ Cardinality(QueryErrorEvents(q)) = 1
      /\ \A i \in QueryErrorEvents(q) :
           /\ qlog[i].err = qry[q].err
           /\ qlog[i].payload.uid = Uid(qry[q].connection)
           /\ qlog[i].payload.sql = qry[q].obj.sql
           /\ qlog[i].payload.bindings = qry[q].obj.bindings
      /\ qry[q].dispatches = 1

\* C9 witness: SELECT ? AS x with bindings [1] was failed by the driver.
C9_Witness ==
  \E q \in Queries :
    /\ qry[q].kind = "query"
    /\ qry[q].state = "rejected"
    /\ qry[q].obj.sql = <<"SELECT", "?", "AS", "x">>
    /\ qry[q].obj.bindings = <<1>>

\* C10 (as claimed): every promise releaseConnection returned is resolved,
\* never rejected, and the releaseConnection event was emitted for it.
C10_ReleaseNeverFails ==
  /\ \A c \in Callers : rel[c].state # "none" => rel[c].state = "resolved"
  /\ emitted.releaseConnection = Cardinality({c \in Callers : rel[c].state # "none"})

\* C12 (as claimed): for a cluster of two endpoints with max = 1 each, once
\* three callers have called acquireConnection and nothing was released,
\* exactly two of the requests are fulfilled with a handle and the third is
\* pending in the queue.
C12_TwoOfThree ==
  (/\ phase = "ready"
   /\ \A c \in ConcurrentAcquirers : acq[c].state # "none"
   /\ \A c \in Callers : rel[c].state = "none")
    => /\ Cardinality({c \in ConcurrentAcquirers : acq[c].state = "resolved"}) = 2
       /\ Cardinality({c \in ConcurrentAcquirers : acq[c].state = "pending"}) = 1

\* C14 (as claimed): for a configuration with a driver and a connection and
\* no cluster, after construction (and before any destroy) a Pool exists if
\* and only if pool.max is not 0, also when the pool option is omitted.
C14_PoolUnlessMaxZero ==
  (/\ phase = "ready"
   /\ driver = "present"
   /\ config.connection
   /\ ~config.cluster.defined
   /\ \A d \in Destroyers : dest[d].state = "none")
    => (pool.defined <=> ~(config.pool.defined /\ config.pool.hasMax
                             /\ config.pool.max = 0))

\* How often the entry e occurs in the log l.
Count(l, e) == Cardinality({i \in 1..Len(l) : l[i] = e})

\* C11 (as claimed): with an afterCreate hook that fails, every creation the
\* pool has asked of its factory has ended with the hook's error, has handed
\* out no handle, and has disposed of the handle it created.
C11_HookFailureDisposes ==
  \A a \in Creations :
    (hooks.afterCreate = "fails" /\ crt[a].state # "none")
      => /\ crt[a].err = HookError
         /\ ~crt[a].handed
         /\ crt[a].destroyed

\* C15: in every disposal of a handle, with a beforeDestroy hook the hook is
\* invoked first and destroyRawConnection is invoked only after the hook has
\* signalled that it is done; without a hook destroyRawConnection is invoked
\* by the dispose call itself.
C15_HookBeforeDisconnect ==
  \A k \in Disposals :
    (dsp[k].stage # "none" /\ dsp[k].present)
      => IF hooks.beforeDestroy # "absent"
         THEN /\ dsp[k].log[1] = "beforeDestroy"
              /\ \A i \in 1..Len(dsp[k].log) :
                   dsp[k].log[i] = "destroyRawConnection"
                     => \E j \in 1..(i - 1) : dsp[k].log[j] = "done"
         ELSE dsp[k].log[1] = "destroyRawConnection"

\* C15 witness: a handle was disposed of with a hook configured, the hook is
\* done and the driver was asked to disconnect.
C15_Witness ==
  \E k \in Disposals :
    /\ dsp[k].present
    /\ hooks.beforeDestroy = "present"
    /\ Count(dsp[k].log, "destroyRawConnection") = 1

\* C16 (as claimed): a dispose of an absent handle invokes neither the
\* beforeDestroy hook nor destroyRawConnection, hook configured or not.
C16_AbsentHandleNoOp ==
  \A k \in Disposals :
    (dsp[k].stage # "none" /\ ~dsp[k].present)
      => /\ Count(dsp[k].log, "beforeDestroy") = 0
         /\ Count(dsp[k].log, "destroyRawConnection") = 0

\* C20 (as claimed): every dispose invocation that has nothing left to run
\* has signalled its completion callback exactly once, for a present and for
\* an absent handle, with and without a hook.
C20_CallbackExactlyOnce ==
  \A k \in Disposals :
    dsp[k].stage = "returned" => Count(dsp[k].log, "callback") = 1

\* The entries of qlog with the given name that belong to the call q.
Entries(name, q) ==
  {i \in DOMAIN qlog : qlog[i].name = name /\ qlog[i].call = q}

\* C17: every query or stream call has emitted exactly one query event, tagged
\* with the identifier of its handle, before its one dispatch to the driver; a
\* query-error event belongs to a failed query call and comes after that
\* call's query event; a failed stream call has emitted no query-error event
\* and is rejected with the driver's error, message unchanged.
C17_OneQueryEventBeforeDispatch ==
  \A q \in Queries :
    /\ qry[q].state = "none"
         => Entries("query", q) \cup Entries("dispatch", q) \cup QueryErrorEvents(q) = {}
    /\ qry[q].state # "none"
         => /\ Cardinality(Entries("query", q)) = 1
            /\ Cardinality(Entries("dispatch", q)) = 1
            /\ \A i \in Entries("query", q) :
                 /\ qlog[i].payload = tagged(qry[q].connection, qry[q].obj)
                 /\ \A j \in Entries("dispatch", q) \cup QueryErrorEvents(q) : i < j
    /\ QueryErrorEvents(q) # {}
         => qry[q].kind = "query" /\ qry[q].state = "rejected"
    /\ (qry[q].kind = "stream" /\ qry[q].state = "rejected")
         => /\ QueryErrorEvents(q) = {}
            /\ qry[q].err = [id |-> q, message |-> DriverErrorText]

\* C17 witness: the driver failed a stream call and a query call.
C17_Witness ==
  \E q1, q2 \in Queries :
    /\ qry[q1].kind = "stream" /\ qry[q1].state = "rejected"
    /\ qry[q2].kind = "query" /\ qry[q2].state = "rejected"

\* C18 (as claimed): once the drain of the old pool that a re-initialisation
\* started has completed, the Client references the pool or cluster the
\* re-initialisation built, and that pool is not ending.
C18_ReinitKeepsNewPool ==
  reinit.state = "done"
    => /\ reinit.built = "pool" => (pool.defined /\ ~pool.ending)
       /\ reinit.built = "cluster" => (cluster.defined /\ ~cluster.ending)

\* The settings object that was passed to initializePool for endpoint i.
PassedSettings(i) ==
  IF settings.passed[i] = "connectionSettings" THEN settings.object ELSE cloneDeep(FALSE)

\* C19 (as claimed): after a cluster was built, the settings object passed to
\* the pool of each endpoint holds that endpoint's config merged over the
\* shared connection settings, and the shared connection settings are what
\* the configuration's connection says.
C19_SettingsPerEndpoint ==
  (phase = "ready" /\ cluster.defined /\ reinit.state = "none")
    => /\ \A i \in DOMAIN settings.passed :
            PassedSettings(i) = assignSettings(cloneDeep(config.connection),
                                               config.cluster.endpoints[i])
       /\ settings.object = cloneDeep(config.connection)

====
